---- MODULE Spec2Model ----
(***************************************************************************)
(* Library-management frontend: the page components (dashboard, books,    *)
(* add-book, members, borrow, active borrows, overdue) and the API module  *)
(* they call.  One behaviour is one visit of one page: the component is    *)
(* rendered with its useState initial values, its mount effect runs, and   *)
(* then user events and backend responses interleave.  The axios instance  *)
(* is observed through `reqs` (every request issued, with its outcome),    *)
(* window.alert through `alerts`, and router.push through `routerPush`.    *)
(***************************************************************************)
EXTENDS Integers, Sequences, FiniteSets, TLC

\* ---------------------------------------------------------------- bounds
\* Filter changes on the books page in one visit.
MaxToggles == 2
\* Borrow requests sent from the borrow page in one visit.
MaxBorrows == 1
\* Confirmed returns on the active-borrows page in one visit.
MaxReturns == 2
\* Submissions of the add-book form in one visit.
MaxSubmits == 2
\* Largest entity id the backend hands out.
MaxId == 2
\* Longest text typed into the ISBN field.
MaxIsbnLen == 13
\* 'Please select both...' alerts one visit may raise.
MaxAlerts == 1

\* ------------------------------------------------------------ JS values
Undefined == "<undefined>"
NoArg == 0
NoBody == [none |-> TRUE]
NoData == <<>>
NoErr == [hasResponse |-> FALSE, message |-> Undefined]

\* JavaScript truthiness of a string-or-undefined value.
Truthy(v) == v # Undefined /\ v # ""
\* a || b
Or(a, b) == IF Truthy(a) THEN a ELSE b
\* err.response?.data?.message
ErrMessage(err) == IF err.hasResponse THEN err.message ELSE Undefined
\* String(n), as React writes a numeric option value into the DOM
String(n) == ToString(n)
\* +s (unary plus) on the text of an option value
Number(s) == IF s = "" THEN 0 ELSE CHOOSE n \in 0..(MaxId + 1) : ToString(n) = s

\* ------------------------------------------------------ the API module
Req(api, arg, method, url, body) ==
  [api |-> api, arg |-> arg, method |-> method, url |-> url, body |-> body]

booksAPI_getAll == Req("booksAPI.getAll", NoArg, "GET", "/books", NoBody)
booksAPI_getAvailable ==
  Req("booksAPI.getAvailable", NoArg, "GET", "/books/available", NoBody)
booksAPI_getById(id) ==
  Req("booksAPI.getById", id, "GET", "/books/" \o String(id), NoBody)
booksAPI_add(data) == Req("booksAPI.add", NoArg, "POST", "/books", data)
booksAPI_update(id, data) ==
  Req("booksAPI.update", id, "PUT", "/books/" \o String(id), data)
booksAPI_delete(id) ==
  Req("booksAPI.delete", id, "DELETE", "/books/" \o String(id), NoBody)

membersAPI_getAll == Req("membersAPI.getAll", NoArg, "GET", "/members", NoBody)
membersAPI_getById(id) ==
  Req("membersAPI.getById", id, "GET", "/members/" \o String(id), NoBody)
membersAPI_register(data) ==
  Req("membersAPI.register", NoArg, "POST", "/members", data)

borrowAPI_borrowBook(data) ==
  Req("borrowAPI.borrowBook", NoArg, "POST", "/borrow", data)
\* borrowAPI_returnBook with the /return suffix dropped.
borrowAPI_returnBook_NoSuffix(id) ==
  Req("borrowAPI.returnBook", id, "PUT", "/borrow/" \o String(id), NoBody)
borrowAPI_returnBook(id) ==
  Req("borrowAPI.returnBook", id, "PUT",
      "/borrow/" \o String(id) \o "/return", NoBody)
borrowAPI_getActive ==
  Req("borrowAPI.getActive", NoArg, "GET", "/borrow/active", NoBody)
borrowAPI_getOverdue ==
  Req("borrowAPI.getOverdue", NoArg, "GET", "/borrow/overdue", NoBody)

\* ------------------------------------------------- what the backend sends
Ids == 1..MaxId
\* Book i: odd ids are out of stock, even ids have copies left.
Book(i) == [id |-> i, availableQuantity |-> IF i % 2 = 0 THEN i \div 2 ELSE 0,
            totalQuantity |-> i]
\* Member i: member 1 is ACTIVE, the others are SUSPENDED.
Member(i) == [id |-> i, status |-> IF i = 1 THEN "ACTIVE" ELSE "SUSPENDED"]
\* Borrow record i with the given fine.
BorrowRecord(i, fine) == [id |-> i, fine |-> fine]
\* Fines a return can come back with: on time, or 4 days late at 10 a day.
Fines == {0, 40}

\* The lists sent are the first n entities, for every n up to MaxId.
Sizes == 0..MaxId
Available(list) == SelectSeq(list, LAMBDA b : b.availableQuantity > 0)

BooksResponses == {[k \in 1..n |-> Book(k)] : n \in Sizes}
AvailableResponses == {Available(l) : l \in BooksResponses}
MembersResponses == {[k \in 1..n |-> Member(k)] : n \in Sizes}
\* Active records carry no fine yet.
ActiveResponses == {[k \in 1..n |-> BorrowRecord(k, 0)] : n \in Sizes}
\* The per-day rate the days-late badge divides a fine by.
RatePerDay == 10
\* Overdue record k carries the fine of k - 1 whole days, or that and half a
\* day more (a fine that is no whole number of days).
HalfDay == RatePerDay \div 2
OverdueResponses ==
  UNION {{[k \in 1..n |-> BorrowRecord(k, RatePerDay * (k - 1) + extra[k])] :
            extra \in [1..n -> {0, HalfDay}]} : n \in Sizes}

\* The 2xx bodies the backend can answer request r with.
ServerData(r) ==
  CASE r.api = "booksAPI.getAll" -> BooksResponses
    [] r.api = "booksAPI.getAvailable" -> AvailableResponses
    [] r.api = "membersAPI.getAll" -> MembersResponses
    [] r.api = "borrowAPI.getActive" -> ActiveResponses
    [] r.api = "borrowAPI.getOverdue" -> OverdueResponses
    [] r.api = "borrowAPI.returnBook" -> {BorrowRecord(r.arg, f) : f \in Fines}
    [] r.api = "borrowAPI.borrowBook" -> {BorrowRecord(MaxId + 1, 0)}
    [] OTHER -> {Book(MaxId + 1)}

\* The ways a request can fail: no response at all (network error, timeout),
\* an error response without a message, an error response with one.
ServerMessage == "Rejected by the backend"
Errors == {[hasResponse |-> FALSE, message |-> Undefined],
           [hasResponse |-> TRUE, message |-> Undefined],
           [hasResponse |-> TRUE, message |-> ServerMessage]}

\* ----------------------------------------------------------------- state
Pages == {"home", "books", "addBook", "members", "borrow", "active", "overdue"}

VARIABLES
  page,           \* the page component this visit renders
  mounted,        \* its mount effect has run
  reqs,           \* every request issued through the axios instance, in order
  alerts,         \* texts passed to window.alert, in order
  routerPush,     \* paths passed to router.push, in order
  loading,        \* useState(true) of the pages that fetch on mount
  stats,          \* Home
  books,          \* BooksPage, BorrowPage
  filter,         \* BooksPage
  form,           \* AddBook
  submitting,     \* AddBook
  members,        \* MembersPage, BorrowPage
  selectedBook,   \* BorrowPage
  selectedMember, \* BorrowPage
  borrows,        \* ActiveBorrows
  overdue         \* OverduePage

vars == <<page, mounted, reqs, alerts, routerPush, loading, stats, books,
          filter, form, submitting, members, selectedBook, selectedMember,
          borrows, overdue>>

\* The view state of each component, for UNCHANGED.
homeState == <<stats>>
booksState == <<books, filter>>
addState == <<form, submitting, routerPush>>
borrowState == <<selectedBook, selectedMember>>
listState == <<members, borrows, overdue>>

InitialForm == [title |-> "", author |-> "", isbn |-> <<>>, category |-> "",
                totalQuantity |-> 1, publicationYear |-> 2023]

Init ==
  /\ page \in Pages
  /\ mounted = FALSE
  /\ reqs = <<>>
  /\ alerts = <<>>
  /\ routerPush = <<>>
  /\ loading = TRUE
  /\ stats = [books |-> 0, members |-> 0, overdue |-> 0]
  /\ books = <<>>
  /\ filter = "all"
  /\ form = InitialForm
  /\ submitting = FALSE
  /\ members = <<>>
  /\ selectedBook = ""
  /\ selectedMember = ""
  /\ borrows = <<>>
  /\ overdue = <<>>

\* ------------------------------------------------------ the axios mock
\* Request r issued by handler h, not yet answered.
Issue(r, h) ==
  [api |-> r.api, arg |-> r.arg, method |-> r.method, url |-> r.url,
   body |-> r.body, h |-> h, status |-> "pending", data |-> NoData,
   err |-> NoErr]

Pending(h) == {i \in DOMAIN reqs : reqs[i].h = h /\ reqs[i].status = "pending"}
Resolved(i, d) == [reqs EXCEPT ![i].status = "ok", ![i].data = d]
Rejected(i, e) == [reqs EXCEPT ![i].status = "fail", ![i].err = e]
\* The requests of log rs that function api of the API module issued.
IssuedBy(rs, api) == {i \in DOMAIN rs : rs[i].api = api}

\* Promise.all over the requests at positions idx of log rs.
AllFulfilled(rs, idx) == \A k \in idx : rs[k].status = "ok"
AnyRejected(rs, idx) == \E k \in idx : rs[k].status = "fail"

\* ------------------------------------------------------------------ Home
HomeInputs == {1, 2, 3}

HomeMount ==
  /\ page = "home" /\ ~mounted
  /\ mounted' = TRUE
  /\ reqs' = reqs \o <<Issue(booksAPI_getAll, "Home.useEffect"),
                       Issue(membersAPI_getAll, "Home.useEffect"),
                       Issue(borrowAPI_getOverdue, "Home.useEffect")>>
  /\ UNCHANGED <<page, alerts, loading, homeState, booksState, addState,
                 borrowState, listState>>

\* HomeThen with the overdue card fed from the members response.
HomeThen_MembersAsOverdue(rs) ==
  /\ stats' = [books |-> Len(rs[1].data), members |-> Len(rs[2].data),
               overdue |-> Len(rs[2].data)]
  /\ loading' = FALSE

\* .then(([booksRes, membersRes, overdueRes]) => ...), once all three are in
HomeThen(rs) ==
  /\ stats' = [books |-> Len(rs[1].data), members |-> Len(rs[2].data),
               overdue |-> Len(rs[3].data)]
  /\ loading' = FALSE

HomeFetchOk ==
  \E i \in Pending("Home.useEffect") : \E d \in ServerData(reqs[i]) :
    LET rs == Resolved(i, d) IN
      /\ reqs' = rs
      /\ IF AllFulfilled(rs, HomeInputs)
           THEN HomeThen(rs)
           ELSE UNCHANGED <<stats, loading>>
      /\ UNCHANGED <<page, mounted, alerts, booksState, addState, borrowState,
                     listState>>

\* HomeFetchFail with setLoading(false) left out of the catch.
HomeFetchFail_KeepsLoading ==
  \E i \in Pending("Home.useEffect") : \E e \in Errors :
    /\ reqs' = Rejected(i, e)
    /\ UNCHANGED <<page, mounted, alerts, loading, homeState, booksState,
                   addState, borrowState, listState>>
\* .catch: runs once, on the first rejection
HomeFetchFail ==
  \E i \in Pending("Home.useEffect") : \E e \in Errors :
    /\ reqs' = Rejected(i, e)
    /\ IF AnyRejected(reqs, HomeInputs)
         THEN UNCHANGED loading
         ELSE loading' = FALSE
    /\ UNCHANGED <<page, mounted, alerts, homeState, booksState, addState,
                   borrowState, listState>>

\* ------------------------------------------------------------- BooksPage
\* BooksFetch with the filter ignored.
BooksFetch_AlwaysAll(f) == Issue(booksAPI_getAll, "BooksPage.useEffect")
\* The effect body: setLoading(true), then fetch by filter f.
BooksFetch(f) ==
  IF f = "available"
    THEN Issue(booksAPI_getAvailable, "BooksPage.useEffect")
    ELSE Issue(booksAPI_getAll, "BooksPage.useEffect")

BooksEffect(f) ==
  /\ loading' = TRUE
  /\ reqs' = Append(reqs, BooksFetch(f))

BooksMount ==
  /\ page = "books" /\ ~mounted
  /\ mounted' = TRUE
  /\ BooksEffect(filter)
  /\ UNCHANGED <<page, alerts, homeState, booksState, addState, borrowState,
                 listState>>

\* onClick={() => setFilter(f)}; the effect re-runs only when filter changed
SetFilter ==
  \E f \in {"all", "available"} :
    /\ page = "books" /\ mounted
    /\ f # filter
    /\ Len(reqs) <= MaxToggles   \* the mount's fetch, then one per change
    /\ filter' = f
    /\ BooksEffect(f)
    /\ UNCHANGED <<page, mounted, alerts, homeState, books, addState,
                   borrowState, listState>>

BooksFetchOk ==
  \E i \in Pending("BooksPage.useEffect") : \E d \in ServerData(reqs[i]) :
    /\ reqs' = Resolved(i, d)
    /\ books' = d
    /\ loading' = FALSE
    /\ UNCHANGED <<page, mounted, alerts, homeState, filter, addState,
                   borrowState, listState>>

\* BooksFetchFail with the fetch sent again from the catch branch.
BooksFetchFail_Retry ==
  \E i \in Pending("BooksPage.useEffect") : \E e \in Errors :
    /\ reqs' = Append(Rejected(i, e), Issue(Req(reqs[i].api, reqs[i].arg,
                        reqs[i].method, reqs[i].url, reqs[i].body), reqs[i].h))
    /\ UNCHANGED <<page, mounted, alerts, loading, homeState, booksState,
                   addState, borrowState, listState>>

BooksFetchFail ==
  \E i \in Pending("BooksPage.useEffect") : \E e \in Errors :
    /\ reqs' = Rejected(i, e)
    /\ loading' = FALSE
    /\ UNCHANGED <<page, mounted, alerts, homeState, booksState, addState,
                   borrowState, listState>>

\* --------------------------------------------------------------- AddBook
Digit == {"0", "1", "2", "3", "4", "5", "6", "7", "8", "9"}
\* \d{n} against the whole value
DigitsExactly(s, n) == Len(s) = n /\ \A k \in DOMAIN s : s[k] \in Digit
\* IsbnPattern matched anywhere in the value instead of against all of it.
IsbnPattern_Unanchored(s) ==
  \E a \in 1..Len(s) : \E n \in {10, 13} :
    a + n - 1 <= Len(s) /\ DigitsExactly(SubSeq(s, a, a + n - 1), n)
\* pattern="\d{10}|\d{13}": the browser compiles it anchored, ^(?:...)$
IsbnPattern(s) == DigitsExactly(s, 10) \/ DigitsExactly(s, 13)

\* Constraint validation of the form's inputs (required, pattern, min, max);
\* the browser calls onSubmit only when every input is valid.
TitleValid(f) == f.title # ""
AuthorValid(f) == f.author # ""
IsbnValid(f) == f.isbn # <<>> /\ IsbnPattern(f.isbn)
TotalQuantityValid(f) == f.totalQuantity >= 1
PublicationYearValid(f) == f.publicationYear >= 1000 /\ f.publicationYear <= 2100
FormValid(f) ==
  /\ TitleValid(f) /\ AuthorValid(f) /\ IsbnValid(f)
  /\ TotalQuantityValid(f) /\ PublicationYearValid(f)

\* What the user can put into each input.
TitleInputs == {"", "Dune"}
AuthorInputs == {"", "Herbert"}
CategoryInputs == {"", "Fiction"}
TotalQuantityInputs == {0, 1}
PublicationYearInputs == {999, 2023, 2101}
Sevens(n) == [k \in 1..n |-> "7"]
\* The empty string, digit strings of every length from one short of the
\* shorter accepted length upwards, and strings of the two accepted lengths
\* whose last character is a letter.
IsbnInputs ==
  {Sevens(n) : n \in {0} \cup {m \in 1..MaxIsbnLen : m + 1 >= 10}}
    \cup {[Sevens(n) EXCEPT ![n] = "x"] : n \in {10, 13}}

\* The form is on screen until router.push has navigated away.
AddBookShown == page = "addBook" /\ routerPush = <<>>

AddBookFrame ==
  UNCHANGED <<page, mounted, reqs, alerts, routerPush, loading, homeState,
              booksState, submitting, borrowState, listState>>

TitleChange ==
  \E v \in TitleInputs :
    /\ AddBookShown /\ v # form.title
    /\ form' = [form EXCEPT !.title = v]
    /\ AddBookFrame

AuthorChange ==
  \E v \in AuthorInputs :
    /\ AddBookShown /\ v # form.author
    /\ form' = [form EXCEPT !.author = v]
    /\ AddBookFrame

IsbnChange ==
  \E v \in IsbnInputs :
    /\ AddBookShown /\ v # form.isbn
    /\ form' = [form EXCEPT !.isbn = v]
    /\ AddBookFrame

CategoryChange ==
  \E v \in CategoryInputs :
    /\ AddBookShown /\ v # form.category
    /\ form' = [form EXCEPT !.category = v]
    /\ AddBookFrame

TotalQuantityChange ==
  \E v \in TotalQuantityInputs :
    /\ AddBookShown /\ v # form.totalQuantity
    /\ form' = [form EXCEPT !.totalQuantity = v]
    /\ AddBookFrame

PublicationYearChange ==
  \E v \in PublicationYearInputs :
    /\ AddBookShown /\ v # form.publicationYear
    /\ form' = [form EXCEPT !.publicationYear = v]
    /\ AddBookFrame

\* handleSubmit up to its await
handleSubmit ==
  /\ submitting' = TRUE
  /\ reqs' = Append(reqs, Issue(booksAPI_add(form), "handleSubmit"))

\* SubmitClick with the button's disabled={submitting} left out.
SubmitClick_NeverDisabled ==
  /\ AddBookShown
  /\ Len(reqs) < MaxSubmits
  /\ IF FormValid(form)
       THEN handleSubmit
       ELSE UNCHANGED <<submitting, reqs>>
  /\ UNCHANGED <<page, mounted, alerts, routerPush, loading, homeState,
                 booksState, form, borrowState, listState>>
\* A click on the submit button (disabled while submitting): the browser
\* validates the inputs and only then calls onSubmit.
SubmitClick ==
  /\ AddBookShown /\ ~submitting
  /\ Len(reqs) < MaxSubmits
  /\ IF FormValid(form)
       THEN handleSubmit
       ELSE UNCHANGED <<submitting, reqs>>
  /\ UNCHANGED <<page, mounted, alerts, routerPush, loading, homeState,
                 booksState, form, borrowState, listState>>

BookAddedText == "Book added successfully!"
AddBookFallback == "Error adding book. Please check ISBN uniqueness."

\* handleSubmit after the await: the try branch
AddBookOk ==
  \E i \in Pending("handleSubmit") : \E d \in ServerData(reqs[i]) :
    /\ reqs' = Resolved(i, d)
    /\ alerts' = Append(alerts, BookAddedText)
    /\ routerPush' = Append(routerPush, "/books")
    /\ UNCHANGED <<page, mounted, loading, homeState, booksState, form,
                   submitting, borrowState, listState>>

\* AddBookFail with the catch branch's alert left out.
AddBookFail_Silent ==
  \E i \in Pending("handleSubmit") : \E e \in Errors :
    /\ reqs' = Rejected(i, e)
    /\ submitting' = FALSE
    /\ UNCHANGED <<page, mounted, alerts, routerPush, loading, homeState,
                   booksState, form, borrowState, listState>>

\* AddBookFail with the redirect also taken on failure.
AddBookFail_Redirects ==
  \E i \in Pending("handleSubmit") : \E e \in Errors :
    /\ reqs' = Rejected(i, e)
    /\ alerts' = Append(alerts, Or(ErrMessage(e), AddBookFallback))
    /\ routerPush' = Append(routerPush, "/books")
    /\ submitting' = FALSE
    /\ UNCHANGED <<page, mounted, loading, homeState, booksState, form,
                   borrowState, listState>>

\* handleSubmit after the await: the catch branch
AddBookFail ==
  \E i \in Pending("handleSubmit") : \E e \in Errors :
    /\ reqs' = Rejected(i, e)
    /\ alerts' = Append(alerts, Or(ErrMessage(e), AddBookFallback))
    /\ submitting' = FALSE
    /\ UNCHANGED <<page, mounted, routerPush, loading, homeState, booksState,
                   form, borrowState, listState>>

\* ----------------------------------------------------------- MembersPage
MembersMount ==
  /\ page = "members" /\ ~mounted
  /\ mounted' = TRUE
  /\ reqs' = Append(reqs, Issue(membersAPI_getAll, "MembersPage.useEffect"))
  /\ UNCHANGED <<page, alerts, loading, homeState, booksState, addState,
                 borrowState, listState>>

MembersFetchOk ==
  \E i \in Pending("MembersPage.useEffect") : \E d \in ServerData(reqs[i]) :
    /\ reqs' = Resolved(i, d)
    /\ members' = d
    /\ loading' = FALSE
    /\ UNCHANGED <<page, mounted, alerts, homeState, booksState, addState,
                   borrowState, borrows, overdue>>

MembersFetchFail ==
  \E i \in Pending("MembersPage.useEffect") : \E e \in Errors :
    /\ reqs' = Rejected(i, e)
    /\ loading' = FALSE
    /\ UNCHANGED <<page, mounted, alerts, homeState, booksState, addState,
                   borrowState, listState>>

\* ----------------------------------------------------------- OverduePage
OverdueMount ==
  /\ page = "overdue" /\ ~mounted
  /\ mounted' = TRUE
  /\ reqs' = Append(reqs, Issue(borrowAPI_getOverdue, "OverduePage.useEffect"))
  /\ UNCHANGED <<page, alerts, loading, homeState, booksState, addState,
                 borrowState, listState>>

OverdueFetchOk ==
  \E i \in Pending("OverduePage.useEffect") : \E d \in ServerData(reqs[i]) :
    /\ reqs' = Resolved(i, d)
    /\ overdue' = d
    /\ loading' = FALSE
    /\ UNCHANGED <<page, mounted, alerts, homeState, booksState, addState,
                   borrowState, members, borrows>>

OverdueFetchFail ==
  \E i \in Pending("OverduePage.useEffect") : \E e \in Errors :
    /\ reqs' = Rejected(i, e)
    /\ loading' = FALSE
    /\ UNCHANGED <<page, mounted, alerts, homeState, booksState, addState,
                   borrowState, listState>>

\* n.toFixed(2) of a whole number
ToFixed2(n) == ToString(n) \o ".00"

\* What OverduePage renders from its state.
\* Math.round(num / den): the nearest whole number, a half going up.
MathRound(num, den) == (2 * num + den) \div (2 * den)
\* the Days Late badge of record b
DaysLateBadge(b) == MathRound(b.fine, RatePerDay)
\* list.reduce((sum, b) => sum + b.fine, sum0)
RECURSIVE ReduceFines(_, _)
ReduceFines(list, sum) ==
  IF list = <<>> THEN sum
  ELSE ReduceFines(Tail(list), sum + Head(list).fine)
\* totalFines with the running sum dropped: reduce((sum, b) => b.fine, 0).
totalFines_LastOnly ==
  IF overdue = <<>> THEN 0 ELSE overdue[Len(overdue)].fine
totalFines == ReduceFines(overdue, 0)
\* The summary block is rendered once loading is over and the list is not
\* empty; it shows totalFines.toFixed(2).
SummaryShown == page = "overdue" /\ ~loading /\ Len(overdue) > 0
TotalFinesText == "₹" \o ToFixed2(totalFines)

\* ------------------------------------------------------------ BorrowPage
BorrowInputs == {1, 2}

BorrowMount ==
  /\ page = "borrow" /\ ~mounted
  /\ mounted' = TRUE
  /\ reqs' = reqs \o <<Issue(booksAPI_getAvailable, "BorrowPage.useEffect"),
                       Issue(membersAPI_getAll, "BorrowPage.useEffect")>>
  /\ UNCHANGED <<page, alerts, loading, homeState, booksState, addState,
                 borrowState, listState>>

\* .then(([booksRes, membersRes]) => ...), once both are in
BorrowThen(rs) ==
  /\ books' = rs[1].data
  /\ members' = rs[2].data
  /\ loading' = FALSE

\* BorrowLoadOk with one .then per request instead of Promise.all: each
\* response sets its own list as it arrives.
BorrowLoadOk_EachOnArrival ==
  \E i \in Pending("BorrowPage.useEffect") : \E d \in ServerData(reqs[i]) :
    LET rs == Resolved(i, d) IN
      /\ reqs' = rs
      /\ IF i = 1 THEN books' = d /\ UNCHANGED members
                  ELSE members' = d /\ UNCHANGED books
      /\ IF AllFulfilled(rs, BorrowInputs)
           THEN loading' = FALSE
           ELSE UNCHANGED loading
      /\ UNCHANGED <<page, mounted, alerts, homeState, filter, addState,
                     borrowState, borrows, overdue>>
BorrowLoadOk ==
  \E i \in Pending("BorrowPage.useEffect") : \E d \in ServerData(reqs[i]) :
    LET rs == Resolved(i, d) IN
      /\ reqs' = rs
      /\ IF AllFulfilled(rs, BorrowInputs)
           THEN BorrowThen(rs)
           ELSE UNCHANGED <<books, members, loading>>
      /\ UNCHANGED <<page, mounted, alerts, homeState, filter, addState,
                     borrowState, borrows, overdue>>

\* .catch: runs once, on the first rejection
BorrowLoadFail ==
  \E i \in Pending("BorrowPage.useEffect") : \E e \in Errors :
    /\ reqs' = Rejected(i, e)
    /\ IF AnyRejected(reqs, BorrowInputs)
         THEN UNCHANGED loading
         ELSE loading' = FALSE
    /\ UNCHANGED <<page, mounted, alerts, homeState, booksState, addState,
                   borrowState, listState>>

\* The <option> values of the two selects: the placeholder, then one option
\* for every element of the list.
BookOptions == {""} \cup {String(books[k].id) : k \in DOMAIN books}
MemberOptions == {""} \cup {String(members[k].id) : k \in DOMAIN members}

\* The selects and the button are rendered only when loading is false.
BorrowFormShown == page = "borrow" /\ mounted /\ ~loading

SelectBook ==
  \E v \in BookOptions :
    /\ BorrowFormShown /\ v # selectedBook
    /\ selectedBook' = v
    /\ UNCHANGED <<page, mounted, reqs, alerts, loading, homeState,
                   booksState, addState, selectedMember, listState>>

SelectMember ==
  \E v \in MemberOptions :
    /\ BorrowFormShown /\ v # selectedMember
    /\ selectedMember' = v
    /\ UNCHANGED <<page, mounted, reqs, alerts, loading, homeState,
                   booksState, addState, selectedBook, listState>>

SelectBothText == "Please select both book and member"
BorrowedText == "Book borrowed successfully! Due in 14 days"
BorrowFallback == "Cannot borrow this book. Check member status and book limits."

\* NotBothSelected with the member test left out.
NotBothSelected_BookOnly == ~Truthy(selectedBook)
\* !selectedBook || !selectedMember: line 52, and the button's disabled (144)
NotBothSelected == ~Truthy(selectedBook) \/ ~Truthy(selectedMember)

BorrowBudget == Cardinality(IssuedBy(reqs, "borrowAPI.borrowBook")) < MaxBorrows

\* handleBorrow up to its first await.  The handler is taken as callable
\* whenever the form is shown; through the button it runs only with both
\* selections made, since the button is disabled under the handler's own guard.
handleBorrow ==
  /\ BorrowFormShown
  /\ IF NotBothSelected
       THEN /\ Len(alerts) < MaxAlerts
            /\ alerts' = Append(alerts, SelectBothText)
            /\ UNCHANGED reqs
       ELSE /\ BorrowBudget
            /\ reqs' = Append(reqs, Issue(borrowAPI_borrowBook(
                         [bookId |-> Number(selectedBook),
                          memberId |-> Number(selectedMember)]), "handleBorrow"))
            /\ UNCHANGED alerts
  /\ UNCHANGED <<page, mounted, loading, homeState, booksState, addState,
                 borrowState, listState>>

\* after the first await: success alert, reset, start the refresh
BorrowOk ==
  \E i \in Pending("handleBorrow") : \E d \in ServerData(reqs[i]) :
    /\ alerts' = Append(alerts, BorrowedText)
    /\ selectedBook' = ""
    /\ selectedMember' = ""
    /\ reqs' = Append(Resolved(i, d),
                      Issue(booksAPI_getAvailable, "handleBorrow.refresh"))
    /\ UNCHANGED <<page, mounted, loading, homeState, booksState, addState,
                   listState>>

\* BorrowFail with the selections reset as after a success.
BorrowFail_Resets ==
  \E i \in Pending("handleBorrow") : \E e \in Errors :
    /\ reqs' = Rejected(i, e)
    /\ alerts' = Append(alerts, Or(ErrMessage(e), BorrowFallback))
    /\ selectedBook' = ""
    /\ selectedMember' = ""
    /\ UNCHANGED <<page, mounted, loading, homeState, booksState, addState,
                   listState>>
\* the catch branch, entered from the first await
BorrowFail ==
  \E i \in Pending("handleBorrow") : \E e \in Errors :
    /\ reqs' = Rejected(i, e)
    /\ alerts' = Append(alerts, Or(ErrMessage(e), BorrowFallback))
    /\ UNCHANGED <<page, mounted, loading, homeState, booksState, addState,
                   borrowState, listState>>

\* after the second await
RefreshOk ==
  \E i \in Pending("handleBorrow.refresh") : \E d \in ServerData(reqs[i]) :
    /\ reqs' = Resolved(i, d)
    /\ books' = d
    /\ UNCHANGED <<page, mounted, alerts, loading, homeState, filter,
                   addState, borrowState, listState>>

\* the same catch branch, entered from the second await
RefreshFail ==
  \E i \in Pending("handleBorrow.refresh") : \E e \in Errors :
    /\ reqs' = Rejected(i, e)
    /\ alerts' = Append(alerts, Or(ErrMessage(e), BorrowFallback))
    /\ UNCHANGED <<page, mounted, loading, homeState, booksState, addState,
                   borrowState, listState>>

\* --------------------------------------------------------- ActiveBorrows
\* fetchActiveBorrows, called from the mount effect
ActiveMount ==
  /\ page = "active" /\ ~mounted
  /\ mounted' = TRUE
  /\ reqs' = Append(reqs, Issue(borrowAPI_getActive, "fetchActiveBorrows"))
  /\ UNCHANGED <<page, alerts, loading, homeState, booksState, addState,
                 borrowState, listState>>

ActiveFetchOk ==
  \E i \in Pending("fetchActiveBorrows") : \E d \in ServerData(reqs[i]) :
    /\ reqs' = Resolved(i, d)
    /\ borrows' = d
    /\ loading' = FALSE
    /\ UNCHANGED <<page, mounted, alerts, homeState, booksState, addState,
                   borrowState, members, overdue>>

ActiveFetchFail ==
  \E i \in Pending("fetchActiveBorrows") : \E e \in Errors :
    /\ reqs' = Rejected(i, e)
    /\ loading' = FALSE
    /\ UNCHANGED <<page, mounted, alerts, homeState, booksState, addState,
                   borrowState, listState>>

OnTimeText == "Book returned on time!"
FineText(fine) == "Book returned!\nOverdue fine: ₹" \o ToFixed2(fine)
ReturnErrorText == "Error returning book"

\* handleReturn(b.id) up to its await, from the Return button of a listed
\* record; confirm() is answered by the user.
handleReturn ==
  \E k \in DOMAIN borrows : \E confirm \in BOOLEAN :
    /\ page = "active" /\ mounted /\ ~loading
    /\ IF ~confirm
         THEN UNCHANGED reqs
         ELSE /\ Cardinality(IssuedBy(reqs, "borrowAPI.returnBook")) < MaxReturns
              /\ reqs' = Append(reqs, Issue(borrowAPI_returnBook(borrows[k].id),
                                            "handleReturn"))
    /\ UNCHANGED <<page, mounted, alerts, loading, homeState, booksState,
                   addState, borrowState, listState>>

\* ReturnOk with the fine test as fine >= 0.
ReturnOk_FineFromZero ==
  \E i \in Pending("handleReturn") : \E d \in ServerData(reqs[i]) :
    /\ reqs' = Resolved(i, d)
    /\ alerts' = Append(alerts, IF d.fine >= 0 THEN FineText(d.fine)
                                              ELSE OnTimeText)
    /\ borrows' = SelectSeq(borrows, LAMBDA b : b.id # reqs[i].arg)
    /\ UNCHANGED <<page, mounted, loading, homeState, booksState, addState,
                   borrowState, members, overdue>>
\* after the await: the alert by fine, then setBorrows(prev => prev.filter(...))
ReturnOk ==
  \E i \in Pending("handleReturn") : \E d \in ServerData(reqs[i]) :
    /\ reqs' = Resolved(i, d)
    /\ alerts' = Append(alerts, IF d.fine > 0 THEN FineText(d.fine)
                                             ELSE OnTimeText)
    /\ borrows' = SelectSeq(borrows, LAMBDA b : b.id # reqs[i].arg)
    /\ UNCHANGED <<page, mounted, loading, homeState, booksState, addState,
                   borrowState, members, overdue>>

\* ReturnFail with the record taken off the list all the same.
ReturnFail_Removes ==
  \E i \in Pending("handleReturn") : \E e \in Errors :
    /\ reqs' = Rejected(i, e)
    /\ alerts' = Append(alerts, ReturnErrorText)
    /\ borrows' = SelectSeq(borrows, LAMBDA b : b.id # reqs[i].arg)
    /\ UNCHANGED <<page, mounted, loading, homeState, booksState, addState,
                   borrowState, members, overdue>>
ReturnFail ==
  \E i \in Pending("handleReturn") : \E e \in Errors :
    /\ reqs' = Rejected(i, e)
    /\ alerts' = Append(alerts, ReturnErrorText)
    /\ UNCHANGED <<page, mounted, loading, homeState, booksState, addState,
                   borrowState, listState>>

\* ------------------------------------------------------------------ Spec
Next ==
  \/ HomeMount \/ HomeFetchOk \/ HomeFetchFail
  \/ BooksMount \/ SetFilter \/ BooksFetchOk \/ BooksFetchFail
  \/ TitleChange \/ AuthorChange \/ IsbnChange \/ CategoryChange
  \/ TotalQuantityChange \/ PublicationYearChange
  \/ SubmitClick \/ AddBookOk \/ AddBookFail
  \/ MembersMount \/ MembersFetchOk \/ MembersFetchFail
  \/ OverdueMount \/ OverdueFetchOk \/ OverdueFetchFail
  \/ BorrowMount \/ BorrowLoadOk \/ BorrowLoadFail
  \/ SelectBook \/ SelectMember \/ handleBorrow
  \/ BorrowOk \/ BorrowFail \/ RefreshOk \/ RefreshFail
  \/ ActiveMount \/ ActiveFetchOk \/ ActiveFetchFail
  \/ handleReturn \/ ReturnOk \/ ReturnFail

Spec == Init /\ [][Next]_vars

\* ------------------------------- the pages that show a loading indicator
\* Every page but the add-book form keeps a loading flag and fetches on mount.
LoadingPages == Pages \ {"addBook"}
LoadInit == Init /\ page \in LoadingPages

\* The mount effect of the page: React runs it after the first render.
Mount ==
  \/ HomeMount \/ BooksMount \/ MembersMount \/ OverdueMount
  \/ BorrowMount \/ ActiveMount
\* A pending request is answered, with a response or with an error, and the
\* continuation that waits for it runs.
Respond ==
  \/ HomeFetchOk \/ HomeFetchFail
  \/ BooksFetchOk \/ BooksFetchFail
  \/ MembersFetchOk \/ MembersFetchFail
  \/ OverdueFetchOk \/ OverdueFetchFail
  \/ BorrowLoadOk \/ BorrowLoadFail
  \/ BorrowOk \/ BorrowFail \/ RefreshOk \/ RefreshFail
  \/ ActiveFetchOk \/ ActiveFetchFail
  \/ ReturnOk \/ ReturnFail
\* What the user does on these pages.
UserEvent == SetFilter \/ SelectBook \/ SelectMember \/ handleBorrow \/ handleReturn

LoadNext == Mount \/ Respond \/ UserEvent
\* The effect runs and every request is answered in the end: the event loop
\* runs a callback that is ready, whatever else the user does.
FairSpec == LoadInit /\ [][LoadNext]_vars /\ WF_vars(Mount) /\ WF_vars(Respond)

\* ------------------------------------------- the API module on its own
\* Calls one caller may make.
MaxCalls == 2
BookData == [title |-> "Dune", author |-> "Herbert"]
MemberData == [name |-> "Ann", email |-> "ann@example.org"]

APIFrame ==
  UNCHANGED <<page, mounted, alerts, routerPush, loading, stats, books,
              filter, form, submitting, members, selectedBook,
              selectedMember, borrows, overdue>>
CanCall == page = "none" /\ Len(reqs) < MaxCalls
Called(r) == Append(reqs, Issue(r, "caller"))

CallBooksGetAll == CanCall /\ reqs' = Called(booksAPI_getAll) /\ APIFrame
CallBooksGetAvailable == CanCall /\ reqs' = Called(booksAPI_getAvailable) /\ APIFrame
CallBooksGetById ==
  \E id \in Ids :
    CanCall /\ reqs' = Called(booksAPI_getById(id)) /\ APIFrame
CallBooksAdd == CanCall /\ reqs' = Called(booksAPI_add(BookData)) /\ APIFrame
CallBooksUpdate ==
  \E id \in Ids :
    CanCall /\ reqs' = Called(booksAPI_update(id, BookData)) /\ APIFrame
CallBooksDelete ==
  \E id \in Ids :
    CanCall /\ reqs' = Called(booksAPI_delete(id)) /\ APIFrame
CallMembersGetAll == CanCall /\ reqs' = Called(membersAPI_getAll) /\ APIFrame
CallMembersGetById ==
  \E id \in Ids :
    CanCall /\ reqs' = Called(membersAPI_getById(id)) /\ APIFrame
CallMembersRegister == CanCall /\ reqs' = Called(membersAPI_register(MemberData)) /\ APIFrame
CallBorrowBook ==
  \E b \in Ids :
    CanCall /\ reqs' = Called(borrowAPI_borrowBook([bookId |-> b, memberId |-> 1])) /\ APIFrame
CallReturnBook ==
  \E id \in Ids :
    CanCall /\ reqs' = Called(borrowAPI_returnBook(id)) /\ APIFrame
CallGetActive == CanCall /\ reqs' = Called(borrowAPI_getActive) /\ APIFrame
CallGetOverdue == CanCall /\ reqs' = Called(borrowAPI_getOverdue) /\ APIFrame

APIInit ==
  /\ page = "none"
  /\ mounted = FALSE
  /\ reqs = <<>>
  /\ alerts = <<>>
  /\ routerPush = <<>>
  /\ loading = TRUE
  /\ stats = [books |-> 0, members |-> 0, overdue |-> 0]
  /\ books = <<>>
  /\ filter = "all"
  /\ form = InitialForm
  /\ submitting = FALSE
  /\ members = <<>>
  /\ selectedBook = ""
  /\ selectedMember = ""
  /\ borrows = <<>>
  /\ overdue = <<>>

APINext ==
  \/ CallBooksGetAll \/ CallBooksGetAvailable \/ CallBooksGetById
  \/ CallBooksAdd \/ CallBooksUpdate \/ CallBooksDelete
  \/ CallMembersGetAll \/ CallMembersGetById \/ CallMembersRegister
  \/ CallBorrowBook \/ CallReturnBook \/ CallGetActive \/ CallGetOverdue

SpecAPI == APIInit /\ [][APINext]_vars

\* ================================================================ claims
\* Request i is answered with a failure / a success in this step.
FailsNow(i) == reqs[i].status = "pending" /\ reqs'[i].status = "fail"
SucceedsNow(i) == reqs[i].status = "pending" /\ reqs'[i].status = "ok"
\* The requests this step issues.
IssuedNow == (Len(reqs) + 1)..Len(reqs')
\* This step shows exactly one alert, with text t.
AlertsNow(t) == alerts' = Append(alerts, t)

AlertingHandlers ==
  {"handleBorrow", "handleBorrow.refresh", "handleSubmit", "handleReturn"}

Fallback(h) ==
  CASE h = "handleBorrow" -> BorrowFallback
    [] h = "handleSubmit" -> AddBookFallback
    [] h = "handleReturn" -> ReturnErrorText

\* C2: when a borrow, add-book or return request fails, the alert shows the
\* server's message whenever the error response carries one, and the generic
\* fallback only when it carries none.
C2_ServerMessageShown ==
  [][\A i \in DOMAIN reqs :
       (FailsNow(i) /\ reqs[i].h \in {"handleBorrow", "handleSubmit", "handleReturn"})
         => AlertsNow(IF reqs'[i].err.hasResponse
                           /\ reqs'[i].err.message # Undefined
                        THEN reqs'[i].err.message
                        ELSE Fallback(reqs[i].h))]_vars

\* ---- C3
\* What the three cards show: '...' while loading, then the count.
Card(n) == IF loading THEN "..." ELSE String(n)
HomeLoaded == page = "home" /\ mounted /\ ~loading

\* C3 as stated: once loading is over, each card shows the length of its own
\* response whenever that one request succeeded.
C3_EachCountFromItsResponse ==
  HomeLoaded =>
    /\ reqs[1].status = "ok" => Card(stats.books) = String(Len(reqs[1].data))
    /\ reqs[2].status = "ok" => Card(stats.members) = String(Len(reqs[2].data))
    /\ reqs[3].status = "ok" => Card(stats.overdue) = String(Len(reqs[3].data))

\* C3 amended: once loading is over, the three cards show the lengths of the
\* GET /books, GET /members and GET /borrow/overdue responses when all three
\* requests succeeded, and all three show 0 otherwise.
C3_CountsWhenAllSucceeded ==
  HomeLoaded =>
    IF AllFulfilled(reqs, HomeInputs)
      THEN /\ reqs[1].url = "/books" /\ reqs[2].url = "/members"
           /\ reqs[3].url = "/borrow/overdue"
           /\ Card(stats.books) = String(Len(reqs[1].data))
           /\ Card(stats.members) = String(Len(reqs[2].data))
           /\ Card(stats.overdue) = String(Len(reqs[3].data))
      ELSE Card(stats.books) = "0" /\ Card(stats.members) = "0"
             /\ Card(stats.overdue) = "0"

\* The dashboard has loaded with three different counts.
C3_Witness ==
  /\ HomeLoaded /\ AllFulfilled(reqs, HomeInputs)
  /\ stats = [books |-> 1, members |-> 0, overdue |-> 2]

\* ---- C4
TenOrThirteenDigits(s) ==
  /\ Len(s) \in {10, 13}
  /\ \A k \in 1..Len(s) : s[k] \in Digit

\* C4: every POST /books carries an ISBN of exactly 10 or exactly 13 digits,
\* and a submission of the add-book form with any other ISBN issues nothing.
C4_IsbnCheckedBeforePost ==
  /\ [](\A i \in DOMAIN reqs :
          (reqs[i].method = "POST" /\ reqs[i].url = "/books")
            => TenOrThirteenDigits(reqs[i].body.isbn))
  /\ [][(page = "addBook" /\ ~TenOrThirteenDigits(form.isbn))
          => Len(reqs') = Len(reqs)]_vars

\* A 13-digit ISBN went out while the field by now holds 9 digits.
C4_Witness ==
  /\ page = "addBook"
  /\ \E i \in DOMAIN reqs : reqs[i].url = "/books" /\ Len(reqs[i].body.isbn) = 13
  /\ form.isbn = Sevens(9)

\* ---- C5
\* The member with the id an option value stands for.
Suspended(v) ==
  \E k \in DOMAIN members :
    String(members[k].id) = v /\ members[k].status # "ACTIVE"

\* C5: the member select offers only ACTIVE members, and no borrow request
\* names a SUSPENDED member.
C5_OnlyActiveMembersOffered ==
  page = "borrow" =>
    /\ \A v \in MemberOptions : ~Suspended(v)
    /\ \A i \in DOMAIN reqs :
         reqs[i].url = "/borrow" => ~Suspended(String(reqs[i].body.memberId))

\* ---- C6
\* The backend contract: method and path of each operation.
ContractMethod(api) ==
  CASE api \in {"booksAPI.getAll", "booksAPI.getAvailable", "booksAPI.getById",
                "membersAPI.getAll", "membersAPI.getById",
                "borrowAPI.getActive", "borrowAPI.getOverdue"} -> "GET"
    [] api \in {"booksAPI.add", "membersAPI.register",
                "borrowAPI.borrowBook"} -> "POST"
    [] api \in {"booksAPI.update", "borrowAPI.returnBook"} -> "PUT"
    [] api = "booksAPI.delete" -> "DELETE"
ContractPath(api, id) ==
  CASE api \in {"booksAPI.getAll", "booksAPI.add"} -> "/books"
    [] api = "booksAPI.getAvailable" -> "/books/available"
    [] api \in {"booksAPI.getById", "booksAPI.update", "booksAPI.delete"}
         -> "/books/" \o ToString(id)
    [] api \in {"membersAPI.getAll", "membersAPI.register"} -> "/members"
    [] api = "membersAPI.getById" -> "/members/" \o ToString(id)
    [] api = "borrowAPI.borrowBook" -> "/borrow"
    [] api = "borrowAPI.returnBook" -> "/borrow/" \o ToString(id) \o "/return"
    [] api = "borrowAPI.getActive" -> "/borrow/active"
    [] api = "borrowAPI.getOverdue" -> "/borrow/overdue"

\* C6: every function of the API module issues the method and the path the
\* backend contract lists for it, with the caller's id in the path.
C6_ApiFollowsContract ==
  \A i \in DOMAIN reqs :
    /\ reqs[i].method = ContractMethod(reqs[i].api)
    /\ reqs[i].url = ContractPath(reqs[i].api, reqs[i].arg)

\* A return of record 2 and a deletion of book 1 have been issued.
C6_Witness ==
  /\ Len(reqs) = 2
  /\ reqs[1].api = "borrowAPI.returnBook" /\ reqs[1].arg = 2
  /\ reqs[2].api = "booksAPI.delete" /\ reqs[2].arg = 1

\* ---- C7
BorrowPostsIn(rs) == {i \in DOMAIN rs : rs[i].method = "POST" /\ rs[i].url = "/borrow"}

\* C7: a POST /borrow goes out only with both selections made and carries
\* exactly the selected ids; the borrow action with a selection missing sends
\* nothing and leaves the lists and the selections as they were.
C7_BorrowNeedsBothSelections ==
  [][page = "borrow" =>
       /\ \A i \in IssuedNow :
            i \in BorrowPostsIn(reqs') =>
              /\ selectedBook # "" /\ selectedMember # ""
              /\ String(reqs'[i].body.bookId) = selectedBook
              /\ String(reqs'[i].body.memberId) = selectedMember
       /\ (selectedBook = "" \/ selectedMember = "") =>
            BorrowPostsIn(reqs') = BorrowPostsIn(reqs)
       /\ AlertsNow(SelectBothText) =>
            /\ reqs' = reqs
            /\ UNCHANGED <<books, members, selectedBook, selectedMember>>]_vars

\* Book 2 went out to member 1, and the borrow action was once refused.
C7_Witness ==
  /\ page = "borrow"
  /\ \E i \in DOMAIN reqs :
       reqs[i].url = "/borrow" /\ reqs[i].body = [bookId |-> 2, memberId |-> 1]
  /\ \E k \in DOMAIN alerts : alerts[k] = SelectBothText

\* ---- C8
FilterPath(f) == IF f = "available" THEN "/books/available" ELSE "/books"
\* This step issues exactly one request, a GET of path p.
OneGetNow(p) ==
  /\ Len(reqs') = Len(reqs) + 1
  /\ SubSeq(reqs', 1, Len(reqs)) = reqs
  /\ reqs'[Len(reqs')].method = "GET"
  /\ reqs'[Len(reqs')].url = p
  /\ reqs'[Len(reqs')].status = "pending"

\* C8: on the books page the filter is 'all' or 'available' and starts as
\* 'all'; every change of it issues exactly one GET to the endpoint of the
\* new filter, and the mount issues one GET /books.
C8_FilterDrivesFetch ==
  /\ filter = "all"
  /\ [](filter \in {"all", "available"})
  /\ [][page = "books" =>
          /\ filter' # filter => OneGetNow(FilterPath(filter'))
          /\ (~mounted /\ mounted') => (reqs = <<>> /\ OneGetNow("/books"))]_vars

\* The filter went to 'available' and back to 'all'.
C8_Witness ==
  /\ page = "books" /\ filter = "all" /\ Len(reqs) = 3
  /\ reqs[1].url = "/books" /\ reqs[2].url = "/books/available"
  /\ reqs[3].url = "/books"

\* ---- C9
\* C9: on the add-book page a successful POST /books brings the success
\* alert and a redirect to /books; a redirect happens only then; a failed
\* request brings no redirect and leaves the form as it was.
C9_RedirectOnlyAfterSuccess ==
  [][page = "addBook" =>
       /\ \A i \in DOMAIN reqs :
            /\ SucceedsNow(i) =>
                 /\ reqs[i].method = "POST" /\ reqs[i].url = "/books"
                 /\ AlertsNow(BookAddedText)
                 /\ routerPush' = Append(routerPush, "/books")
            /\ FailsNow(i) => (routerPush' = routerPush /\ form' = form)
       /\ routerPush' # routerPush =>
            \E i \in DOMAIN reqs : SucceedsNow(i)]_vars

\* The book was added and the page redirected.
C9_Witness ==
  /\ page = "addBook" /\ routerPush = <<"/books">>
  /\ alerts = <<BookAddedText>>
  /\ reqs[1].status = "ok"

\* ---- C10
Endpoint(r) == <<r.method, r.url>>

\* C10: a step in which a request fails issues no request, and the requests
\* one step issues go to pairwise different endpoints: nothing is retried.
C10_NoRetry ==
  [][/\ (\E i \in DOMAIN reqs : FailsNow(i)) => Len(reqs') = Len(reqs)
     /\ \A j, k \in IssuedNow :
          j # k => Endpoint(reqs'[j]) # Endpoint(reqs'[k])]_vars

\* A borrow failed and was not sent again.
C10_Witness ==
  /\ page = "borrow" /\ Len(reqs) = 3
  /\ reqs[3].url = "/borrow" /\ reqs[3].status = "fail"
\* ---------------------------------------------------------------- C11
\* The sum of the fines of a list, taken from its last record backwards.
RECURSIVE FineSum(_)
FineSum(list) ==
  IF Len(list) = 0 THEN 0
  ELSE list[Len(list)].fine + FineSum(SubSeq(list, 1, Len(list) - 1))

\* C11: on the overdue page, once the fetched list is displayed, every record
\* whose fine is daysLate * 10 for a whole daysLate >= 0 has a Days Late badge
\* of exactly daysLate, and the Total Fines figure is the sum of the fines of
\* all records of the fetched list.
C11_BadgeAndTotal ==
  (page = "overdue" /\ ~loading /\ reqs[1].status = "ok") =>
    /\ overdue = reqs[1].data
    /\ \A k \in DOMAIN overdue : \A daysLate \in 0..overdue[k].fine :
         overdue[k].fine = daysLate * 10 => DaysLateBadge(overdue[k]) = daysLate
    /\ totalFines = FineSum(reqs[1].data)
    /\ SummaryShown => TotalFinesText = "₹" \o ToString(FineSum(overdue)) \o ".00"

\* Two records are displayed, one of them a whole number of days late with a
\* fine above zero, and both fines count in the total.
C11_Witness ==
  /\ SummaryShown /\ Len(overdue) = 2
  /\ overdue[1].fine > 0
  /\ overdue[2].fine = 10 /\ DaysLateBadge(overdue[2]) = 1
  /\ totalFines = overdue[1].fine + 10

\* ---------------------------------------------------------------- C12
\* The two messages of a return, as the user reads them.
OverdueFineMessage(fine) ==
  "Book returned!\nOverdue fine: ₹" \o ToString(fine) \o ".00"
OnTimeMessage == "Book returned on time!"

\* C12: a return request that succeeds shows exactly one message: the overdue
\* fine with the amount of the response exactly when that fine is above
\* zero, and the on-time message exactly when it is zero.
C12_OneMessagePerReturn ==
  [][\A i \in DOMAIN reqs :
       (SucceedsNow(i) /\ reqs[i].api = "borrowAPI.returnBook") =>
         LET fine == reqs'[i].data.fine
             shown == alerts'[Len(alerts')]
         IN /\ Len(alerts') = Len(alerts) + 1
            /\ SubSeq(alerts', 1, Len(alerts)) = alerts
            /\ shown \in {OverdueFineMessage(fine), OnTimeMessage}
            /\ (shown = OverdueFineMessage(fine)) <=> (fine > 0)
            /\ (shown = OnTimeMessage) <=> (fine = 0)]_vars

\* One return has come back with a fine and one on time, each with its message.
C12_Witness ==
  /\ page = "active"
  /\ \E i, j \in IssuedBy(reqs, "borrowAPI.returnBook") :
       /\ reqs[i].status = "ok" /\ reqs[i].data.fine = 40
       /\ reqs[j].status = "ok" /\ reqs[j].data.fine = 0
  /\ Len(alerts) = 2
  /\ \E a, b \in DOMAIN alerts :
       alerts[a] = OverdueFineMessage(40) /\ alerts[b] = OnTimeMessage

\* ---------------------------------------------------------------- C13
\* The ids whose return request has succeeded.
ReturnedIds ==
  {reqs[i].arg : i \in {j \in IssuedBy(reqs, "borrowAPI.returnBook") :
                          reqs[j].status = "ok"}}
Without(list, ids) == SelectSeq(list, LAMBDA b : b.id \notin ids)

\* C13: on the active-borrows page the displayed list is the fetched list
\* minus the records whose return has succeeded; a step that sends a return,
\* or in which a return fails, leaves the list as it was, and a return that
\* succeeds removes the record with its id and no other.
C13_ListMinusReturned ==
  /\ [](page = "active" /\ mounted /\ reqs[1].status = "ok" =>
          borrows = Without(reqs[1].data, ReturnedIds))
  /\ [][page = "active" =>
          /\ IssuedNow # {} => borrows' = borrows
          /\ \A i \in DOMAIN reqs : FailsNow(i) => borrows' = borrows
          /\ \A i \in DOMAIN reqs :
               (SucceedsNow(i) /\ reqs[i].api = "borrowAPI.returnBook") =>
                 borrows' = Without(borrows, {reqs[i].arg})
          /\ borrows' # borrows => \E i \in DOMAIN reqs : SucceedsNow(i)]_vars

\* Of two fetched records, the return of the first succeeded and the return
\* of the second failed: the second is still listed, alone.
C13_Witness ==
  /\ page = "active" /\ mounted /\ reqs[1].status = "ok"
  /\ Len(reqs[1].data) = 2
  /\ \E i, j \in IssuedBy(reqs, "borrowAPI.returnBook") :
       /\ reqs[i].arg = 1 /\ reqs[i].status = "ok"
       /\ reqs[j].arg = 2 /\ reqs[j].status = "fail"
  /\ borrows = <<reqs[1].data[2]>>

\* ---------------------------------------------------------------- C14
IsBorrowPost(r) == r.method = "POST" /\ r.url = "/borrow"
IsAvailableGet(r) == r.method = "GET" /\ r.url = "/books/available"

\* C14: on the borrow page a POST /borrow that succeeds empties both
\* selections and sends a new GET /books/available, whose response, when it
\* arrives, becomes the book list; the member list stays as it was through
\* both steps.  A POST /borrow that fails leaves the selections and the two
\* lists as they were and sends nothing.
C14_BorrowFrame ==
  [][page = "borrow" =>
       \A i \in DOMAIN reqs :
         /\ (SucceedsNow(i) /\ IsBorrowPost(reqs[i])) =>
              /\ selectedBook' = "" /\ selectedMember' = ""
              /\ IssuedNow = {Len(reqs) + 1}
              /\ IsAvailableGet(reqs'[Len(reqs')])
              /\ books' = books /\ members' = members
         /\ (SucceedsNow(i) /\ IsAvailableGet(reqs[i])
                             /\ \E j \in BorrowPostsIn(reqs) : j < i) =>
              /\ books' = reqs'[i].data
              /\ members' = members
              /\ selectedBook' = selectedBook
              /\ selectedMember' = selectedMember
         /\ (FailsNow(i) /\ IsBorrowPost(reqs[i])) =>
              /\ selectedBook' = selectedBook
              /\ selectedMember' = selectedMember
              /\ books' = books /\ members' = members
              /\ IssuedNow = {}]_vars

\* The borrow went through, both selections are empty again, the refreshed
\* list (book 2 is gone) has replaced the one fetched on mount, and the
\* members are the ones fetched on mount.
C14_Witness ==
  /\ page = "borrow" /\ Len(reqs) = 4
  /\ \A i \in DOMAIN reqs : reqs[i].status = "ok"
  /\ IsBorrowPost(reqs[3]) /\ IsAvailableGet(reqs[4])
  /\ selectedBook = "" /\ selectedMember = ""
  /\ reqs[1].data # <<>> /\ reqs[4].data = <<>> /\ books = <<>>
  /\ members = reqs[2].data /\ members # <<>>

\* ---------------------------------------------------------------- C15
\* C15: on every page with a loading indicator, when every request is
\* answered in the end, a loading indicator that is on goes off, whether the
\* fetch succeeded or failed, and once off it stays off in every step that
\* issues no request.
C15_LoadingEnds ==
  /\ (page \in LoadingPages /\ loading) ~> ~loading
  /\ [][(page \in LoadingPages /\ ~loading /\ IssuedNow = {}) => ~loading']_vars

\* The books page after a filter change: one fetch failed, one succeeded,
\* nothing is pending and the indicator is off.
C15_Witness ==
  /\ page = "books" /\ ~loading /\ Len(reqs) = 2
  /\ reqs[1].status = "fail" /\ reqs[2].status = "ok"

\* ---------------------------------------------------------------- C16
\* C16: on the books page, when no fetch is pending and every fetch has
\* succeeded, the displayed list is a response of the endpoint that matches
\* the current filter, in whatever order the responses came in.
C16_ListMatchesFilter ==
  (/\ page = "books" /\ mounted
   /\ \A i \in DOMAIN reqs : reqs[i].status = "ok") =>
    \E i \in DOMAIN reqs :
      reqs[i].url = FilterPath(filter) /\ books = reqs[i].data

\* ---------------------------------------------------------------- C17
\* C17: on the books page loading is true in every state in which a book
\* fetch is pending, also when a filter change started a second fetch before
\* the first was answered.
C17_LoadingWhilePending ==
  (page = "books" /\ \E i \in DOMAIN reqs : reqs[i].status = "pending") =>
    loading

\* ---------------------------------------------------------------- C18
ReturnPutsFor(rs, id) ==
  {i \in DOMAIN rs : rs[i].method = "PUT" /\
                     rs[i].url = "/borrow/" \o ToString(id) \o "/return"}

\* C18: on the active-borrows page a PUT /borrow/{id}/return is sent for a
\* record only when no earlier return of that record is pending or has
\* succeeded.
C18_OneReturnPerRecord ==
  [][page = "active" =>
       \A id \in Ids : \A j \in IssuedNow :
         j \in ReturnPutsFor(reqs', id) =>
           \A i \in ReturnPutsFor(reqs, id) : reqs[i].status = "fail"]_vars

\* ---------------------------------------------------------------- C19
BookPosts == {i \in DOMAIN reqs : reqs[i].method = "POST" /\ reqs[i].url = "/books"}

\* C19: on the add-book page at most one POST /books is pending at any time;
\* submitting is true exactly from the start of a submission until that
\* request fails, the button sends nothing while it is true, and after a
\* success it stays true, so that the POST that succeeded is the last one.
C19_OneSubmissionInFlight ==
  page = "addBook" =>
    /\ Cardinality({i \in BookPosts : reqs[i].status = "pending"}) <= 1
    /\ submitting <=> \E i \in BookPosts : reqs[i].status \in {"pending", "ok"}
    /\ \A i \in BookPosts :
         reqs[i].status \in {"pending", "ok"} => i = Len(reqs)
    /\ \A i \in BookPosts : i < Len(reqs) => reqs[i].status = "fail"

\* A first submission has failed and a second one is on its way.
C19_Witness ==
  /\ page = "addBook" /\ Len(reqs) = 2
  /\ reqs[1].status = "fail" /\ reqs[2].status = "pending"
  /\ BookPosts = {1, 2}
  /\ submitting

\* ---------------------------------------------------------------- C20
\* C20: on the borrow page the borrow-failure alert (the server message or
\* 'Cannot borrow this book...') comes up only in a step in which the
\* POST /borrow itself fails, so never after a borrow that succeeded, a
\* failed refresh of the available books included.
C20_FailureAlertOnlyForPost ==
  [][(/\ page = "borrow"
      /\ Len(alerts') > Len(alerts)
      /\ alerts'[Len(alerts')] \in {BorrowFallback, ServerMessage}) =>
       \E i \in BorrowPostsIn(reqs) : FailsNow(i)]_vars

\* ---------------------------------------------------------------- C21
\* A refresh of the available books after a borrow has been answered.
Refreshed ==
  \E i \in DOMAIN reqs :
    i \notin BorrowInputs /\ IsAvailableGet(reqs[i]) /\ reqs[i].status = "ok"

\* C21: on the borrow page the initial load sets both lists or neither: when
\* GET /books/available and GET /members have both succeeded the two lists
\* are their responses and loading is false; otherwise both lists are empty,
\* and loading is false as soon as one of the two has failed.
C21_LoadAllOrNothing ==
  (page = "borrow" /\ mounted) =>
    /\ IsAvailableGet(reqs[1])
    /\ reqs[2].method = "GET" /\ reqs[2].url = "/members"
    /\ IF reqs[1].status = "ok" /\ reqs[2].status = "ok"
         THEN /\ members = reqs[2].data
              /\ ~Refreshed => books = reqs[1].data
              /\ ~loading
         ELSE /\ books = <<>> /\ members = <<>>
              /\ loading <=> (reqs[1].status # "fail" /\ reqs[2].status # "fail")

\* The available books came in, one book among them, but GET /members
\* failed: both lists are empty and loading is over.
C21_Witness ==
  /\ page = "borrow" /\ mounted
  /\ reqs[1].status = "ok" /\ reqs[1].data # <<>>
  /\ reqs[2].status = "fail"
  /\ books = <<>> /\ members = <<>> /\ ~loading

====
